---- MODULE Spec2Model ----
(***************************************************************************)
(* Model of the node resources of pytaskmanager                            *)
(* (src/pytaskmanager/server/resource/node.py): the handlers of            *)
(* /nodes, /node/<uid> acting on the Node table of the directory store.     *)
(***************************************************************************)
EXTENDS Integers, FiniteSets, Sequences, TLC

VARIABLES
    nodes,          \* rows of db.Node: [id, name, organization_id, collaboration_id, api_key]
    next_id,        \* the id the store assigns to the next saved new row
    clock,          \* last timestamp handed out by uuid.uuid1()
    collaborations, \* rows of db.Collaboration: [id, name]
    taskresults,    \* rows of db.TaskResult: [id, node_id, finished_at]
    issued,         \* history: every api_key a creation has returned so far
    last,           \* the last request handled and its status: [op, user, uid, status]
    inflight        \* per client, the request it has between its read and its write

vars == <<nodes, next_id, clock, collaborations, taskresults, issued, last, inflight>>

----------------------------------------------------------------------------
(* Bounds of the model.                                                    *)

\* number of node rows the store hands out ids for
MaxNodes == 2

\* number of TaskResult rows the external task assignment creates
MaxResults == 3

----------------------------------------------------------------------------
(* The environment: organizations, users, request inputs.                  *)

Organizations == {[id |-> 1, name |-> "org1"], [id |-> 2, name |-> "org2"]}

\* g.user as attached by with_user: a member of each organization and an admin
Users ==
    { [id |-> 1, organization_id |-> 1, roles |-> "member"],
      [id |-> 2, organization_id |-> 2, roles |-> "member"],
      [id |-> 3, organization_id |-> 2, roles |-> "admin"] }

\* the Collaboration rows of the store; no Collaboration has id 3
CollaborationTable == {[id |-> 1, name |-> "collabA"], [id |-> 2, name |-> "collabB"]}

CollaborationIds == {1, 2, 3}

\* path ids a request may carry: ids of rows, of deleted rows and of rows never made
Uids == 1..(MaxNodes + 1)

\* the 'collaboration_id' field of a request body as it arrives:
\* absent, a JSON integer, a string of digits, or a string that is no number
RawBodies ==
    {[kind |-> "absent", val |-> 0], [kind |-> "text", val |-> 0]}
    \cup {[kind |-> "int", val |-> i] : i \in CollaborationIds}
    \cup {[kind |-> "digits", val |-> 2]}

NoUid == 0

\* the callers that may have a request in flight at the same time
Clients == {"A", "B"}

\* no row
NoNode ==
    [id |-> 0, name |-> "", organization_id |-> 0, collaboration_id |-> 0, api_key |-> <<>>]

\* the client has sent no request
Idle ==
    [ pc |-> "idle", op |-> "none", user |-> 0, uid |-> 0, status |-> 0,
      kind |-> "none", read |-> NoNode, node |-> NoNode ]

\* a nullable column that holds no value
None == 0

\* taskresult_id=None: the path carries no task result id
NoTid == 0

\* path ids of task results: ids of rows and of a row never made
Tids == 1..(MaxResults + 1)

\* request.args.get('state'): the parameter is absent, 'open', or another value
StateArgs == {"None", "open", "finished"}

NoBody == [kind |-> "none"]

MsgBody == [kind |-> "msg"]

NodeBody(n) == [kind |-> "node", node |-> n]

ListBody(ns) == [kind |-> "nodes", nodes |-> ns]

\* task_result_schema.dump(result)
ResultBody(result) == [kind |-> "result", result |-> result]

\* a list of task results
ResultsBody(results) == [kind |-> "results", results |-> results]

\* task_result_schema.dump(None): a document without fields
EmptyBody == [kind |-> "empty"]

\* the answer to a request whose handler raised
ErrorBody == [kind |-> "error"]

\* the program's state as a handler finds it and as it leaves it
State ==
    [ nodes |-> nodes, next_id |-> next_id, clock |-> clock,
      collaborations |-> collaborations, taskresults |-> taskresults ]

\* what a handler does: the status and body it returns, the state it leaves
Outcome(status, body, state) == [status |-> status, body |-> body, state |-> state]

----------------------------------------------------------------------------
(* The store's primitives.                                                 *)

\* db.Node.get(uid): the rows with that id (none or one)
NodeRows(uid) == {n \in nodes : n.id = uid}

NodeRow(uid) == CHOOSE n \in nodes : n.id = uid

\* db.Collaboration.get(id)
CollaborationRows(cid) == {c \in collaborations : c.id = cid}

CollaborationRow(cid) == CHOOSE c \in collaborations : c.id = cid

\* node.save() of a new row: the store assigns the next id
Saved(node) == [node EXCEPT !.id = next_id]

\* the state after uuid.uuid1() handed out timestamp t and node.save() added the row
StateAfterCreate(node, t) ==
    [State EXCEPT !.nodes = nodes \cup {Saved(node)}, !.next_id = next_id + 1, !.clock = t]

\* the state after node.save() of the existing row old, now node
StateAfterUpdate(old, node) == [State EXCEPT !.nodes = (nodes \ {old}) \cup {node}]

\* the state after node.delete()
StateAfterDelete(node) == [State EXCEPT !.nodes = nodes \ {node}]

\* db.TaskResult.get(taskresult_id): the rows with that id (none or one)
TaskResultRows(tid) == {t \in taskresults : t.id = tid}

TaskResultRow(tid) == CHOOSE t \in taskresults : t.id = tid

\* node.taskresults: the TaskResult rows that reference the node
TaskResultsOf(node) == {t \in taskresults : t.node_id = node.id}

\* node.save() of a row read earlier: the row is written under its id, whatever the
\* store holds under that id by now
StateAfterSave(node) ==
    [State EXCEPT !.nodes = {n \in nodes : n.id # node.id} \cup {node}]

\* node.delete() of a row read earlier: the row with its id is removed, if still there
StateAfterRemove(node) == [State EXCEPT !.nodes = {n \in nodes : n.id # node.id}]

\* g.user.organization
OrganizationOf(user) == CHOOSE o \in Organizations : o.id = user.organization_id

----------------------------------------------------------------------------
(* Helpers of the handlers.                                                *)

\* mutant of ParseArgs: the field is optional and defaults to the first collaboration
ParseArgsOptional(raw) ==
    IF raw.kind = "absent" THEN [ok |-> TRUE, collaboration_id |-> 1]
    ELSE IF raw.kind = "text" THEN [ok |-> FALSE, collaboration_id |-> 0]
    ELSE [ok |-> TRUE, collaboration_id |-> raw.val]

\* reqparse: 'collaboration_id', type=int, required=True
ParseArgs(raw) ==
    IF raw.kind = "absent" THEN [ok |-> FALSE, collaboration_id |-> 0]
    ELSE IF raw.kind = "text" THEN [ok |-> FALSE, collaboration_id |-> 0]
    ELSE [ok |-> TRUE, collaboration_id |-> raw.val]

\* mutant of Uuid1: the timestamp does not advance between two calls
Uuid1SameTime(t) == [time |-> t, host |-> "server"]

\* str(uuid.uuid1()): a time-based uuid, the timestamp after the last one handed out
Uuid1(t) == [time |-> t + 1, host |-> "server"]

Str(u) == <<"uuid1", u.time, u.host>>

\* mutant of NotAllowed: 'or' for 'and', the admin is held to the organization check too
NotAllowedOr(node, user) ==
    node.organization_id # user.organization_id \/ user.roles # "admin"

\* node.organization_id != g.user.organization_id and g.user.roles != 'admin'
NotAllowed(node, user) ==
    node.organization_id # user.organization_id /\ user.roles # "admin"

\* mutant of NodeName: the format arguments swapped
NodeNameSwapped(organization, collaboration) ==
    collaboration.name \o " - " \o organization.name \o " Node"

\* "{} - {} Node".format(organization.name, collaboration.name)
NodeName(organization, collaboration) ==
    organization.name \o " - " \o collaboration.name \o " Node"

\* db.Node(name=..., collaboration=..., organization=..., api_key=...);
\* the row has no id until it is saved
NewNode(name, collaboration, organization, api_key) ==
    [ id |-> 0,
      name |-> name,
      organization_id |-> organization.id,
      collaboration_id |-> collaboration.id,
      api_key |-> api_key ]

\* mutant of VisibleNodes: the organization filter left out
VisibleNodesUnfiltered(user) == nodes

\* the nodes Nodes.get dumps for g.user
VisibleNodes(user) ==
    IF user.roles # "admin"
    THEN {n \in nodes : n.organization_id = user.organization_id}
    ELSE nodes

----------------------------------------------------------------------------
(* The handlers: what each returns and the state it leaves.                *)

\* GET /nodes
Nodes_get(user) == Outcome(200, ListBody(VisibleNodes(user)), State)

\* mutant of Nodes_post: a second node for the organization and collaboration of an
\* existing node is refused
Nodes_postDeduplicated(user, raw) ==
    LET data == ParseArgs(raw) IN
    IF ~data.ok THEN Outcome(400, MsgBody, State)
    ELSE IF CollaborationRows(data.collaboration_id) = {} THEN Outcome(400, MsgBody, State)
    ELSE IF \E n \in nodes : /\ n.organization_id = user.organization_id
                              /\ n.collaboration_id = data.collaboration_id
         THEN Outcome(409, MsgBody, State)
    ELSE LET collaboration == CollaborationRow(data.collaboration_id)
             uuid == Uuid1(clock)
             api_key == Str(uuid)
             organization == OrganizationOf(user)
             node == NewNode(NodeName(organization, collaboration),
                             collaboration, organization, api_key)
         IN Outcome(201, NodeBody(Saved(node)), StateAfterCreate(node, uuid.time))

\* POST /nodes
Nodes_post(user, raw) ==
    LET data == ParseArgs(raw) IN
    IF ~data.ok THEN Outcome(400, MsgBody, State)
    ELSE IF CollaborationRows(data.collaboration_id) = {} THEN Outcome(400, MsgBody, State)
    ELSE LET collaboration == CollaborationRow(data.collaboration_id)
             uuid == Uuid1(clock)
             api_key == Str(uuid)
             organization == OrganizationOf(user)
             node == NewNode(NodeName(organization, collaboration),
                             collaboration, organization, api_key)
         IN Outcome(201, NodeBody(Saved(node)), StateAfterCreate(node, uuid.time))

\* mutant of Node_get: the organization check made before the lookup's result is tested
Node_getCheckFirst(user, uid) ==
    IF user.roles # "admin"
       /\ \A n \in NodeRows(uid) : n.organization_id # user.organization_id
    THEN Outcome(403, MsgBody, State)
    ELSE IF NodeRows(uid) = {} THEN Outcome(404, MsgBody, State)
    ELSE Outcome(200, NodeBody(NodeRow(uid)), State)

\* mutant of Node_get: the organization check left out
Node_getUnchecked(user, uid) ==
    IF NodeRows(uid) = {} THEN Outcome(404, MsgBody, State)
    ELSE Outcome(200, NodeBody(NodeRow(uid)), State)

\* GET /node/<uid>
Node_get(user, uid) ==
    IF NodeRows(uid) = {} THEN Outcome(404, MsgBody, State)
    ELSE IF NotAllowed(NodeRow(uid), user) THEN Outcome(403, MsgBody, State)
    ELSE Outcome(200, NodeBody(NodeRow(uid)), State)

\* mutant of Node_delete: a delete of an absent node is answered as a success
Node_deleteIdempotent(user, uid) ==
    IF NodeRows(uid) = {} THEN Outcome(200, NoBody, State)
    ELSE IF NotAllowed(NodeRow(uid), user) THEN Outcome(403, MsgBody, State)
    ELSE Outcome(200, NoBody, StateAfterDelete(NodeRow(uid)))

\* mutant of Node_delete: the task results of the node are deleted with it
Node_deleteCascade(user, uid) ==
    IF NodeRows(uid) = {} THEN Outcome(404, MsgBody, State)
    ELSE IF NotAllowed(NodeRow(uid), user) THEN Outcome(403, MsgBody, State)
    ELSE Outcome(200, NoBody,
                 [StateAfterDelete(NodeRow(uid)) EXCEPT
                     !.taskresults = taskresults \ TaskResultsOf(NodeRow(uid))])

\* DELETE /node/<uid>
Node_delete(user, uid) ==
    IF NodeRows(uid) = {} THEN Outcome(404, MsgBody, State)
    ELSE IF NotAllowed(NodeRow(uid), user) THEN Outcome(403, MsgBody, State)
    ELSE Outcome(200, NoBody, StateAfterDelete(NodeRow(uid)))

\* mutant of Node_put_create: the path id is used as the id of the new node
Node_put_createWithUid(user, uid, data) ==
    IF CollaborationRows(data.collaboration_id) = {} THEN Outcome(400, MsgBody, State)
    ELSE LET collaboration == CollaborationRow(data.collaboration_id)
             uuid == Uuid1(clock)
             api_key == Str(uuid)
             organization == OrganizationOf(user)
             node == [NewNode(NodeName(organization, collaboration),
                              collaboration, organization, api_key) EXCEPT !.id = uid]
         IN Outcome(200, NodeBody(node),
                    [State EXCEPT !.nodes = nodes \cup {node}, !.clock = uuid.time])

\* PUT /node/<uid>, no node with that id: "create new node"
Node_put_create(user, uid, data) ==
    IF CollaborationRows(data.collaboration_id) = {} THEN Outcome(400, MsgBody, State)
    ELSE LET collaboration == CollaborationRow(data.collaboration_id)
             uuid == Uuid1(clock)
             api_key == Str(uuid)
             organization == OrganizationOf(user)
             node == NewNode(NodeName(organization, collaboration),
                             collaboration, organization, api_key)
         IN Outcome(200, NodeBody(Saved(node)), StateAfterCreate(node, uuid.time))

\* mutant of UpdatedNode: the update also issues a new api_key
UpdatedNodeNewKey(node, data) ==
    [node EXCEPT !.collaboration_id = data.collaboration_id, !.api_key = Str(Uuid1(clock))]

\* node.collaboration_id = data['collaboration_id']
UpdatedNode(node, data) == [node EXCEPT !.collaboration_id = data.collaboration_id]

\* mutant of Node_put_update: the node is also moved to the organization of the caller
Node_put_updateMovesNode(user, uid, data) ==
    IF NotAllowed(NodeRow(uid), user) THEN Outcome(403, MsgBody, State)
    ELSE LET node == [UpdatedNode(NodeRow(uid), data) EXCEPT
                         !.organization_id = user.organization_id]
         IN Outcome(200, NodeBody(node), StateAfterUpdate(NodeRow(uid), node))

\* mutant of Node_put_update: the changed node is saved as a new row, the row read stays
Node_put_updateAsNewRow(user, uid, data) ==
    IF NotAllowed(NodeRow(uid), user) THEN Outcome(403, MsgBody, State)
    ELSE LET node == UpdatedNode(NodeRow(uid), data)
         IN Outcome(200, NodeBody(Saved(node)), StateAfterCreate(node, clock))

\* PUT /node/<uid>, the node exists: "update node"
Node_put_update(user, uid, data) ==
    IF NotAllowed(NodeRow(uid), user) THEN Outcome(403, MsgBody, State)
    ELSE LET node == UpdatedNode(NodeRow(uid), data)
         IN Outcome(200, NodeBody(node), StateAfterUpdate(NodeRow(uid), node))

\* PUT /node/<uid>
Node_put(user, uid, raw) ==
    LET data == ParseArgs(raw) IN
    IF ~data.ok THEN Outcome(400, MsgBody, State)
    ELSE IF NodeRows(uid) = {} THEN Node_put_create(user, uid, data)
    ELSE Node_put_update(user, uid, data)

\* mutant of IsOpen: the filter keeps the results that have a finished_at
IsFinished(result) == result.finished_at # None

\* not result.finished_at
IsOpen(result) == result.finished_at = None

\* task_result_schema.dump(None) of a task result that does not exist: the handler
\* tests nothing, the serializer decides; it renders a document without fields, or raises
DumpNone == {Outcome(200, EmptyBody, State), Outcome(500, ErrorBody, State)}

\* mutant of NodeTasks_get: a single result is returned only under the node that owns it
NodeTasks_getOwned(uid, taskresult_id, state) ==
    IF taskresult_id # NoTid
    THEN IF TaskResultRows(taskresult_id) = {} THEN DumpNone
         ELSE IF TaskResultRow(taskresult_id).node_id # uid
              THEN {Outcome(403, MsgBody, State)}
              ELSE {Outcome(200, ResultBody(TaskResultRow(taskresult_id)), State)}
    ELSE IF NodeRows(uid) = {} THEN {Outcome(500, ErrorBody, State)}
    ELSE IF state = "open"
         THEN {Outcome(200, ResultsBody({r \in TaskResultsOf(NodeRow(uid)) : IsOpen(r)}), State)}
         ELSE {Outcome(200, ResultsBody(TaskResultsOf(NodeRow(uid))), State)}

\* mutant of NodeTasks_get: the open results handed out are stamped as finished
NodeTasks_getMarksDelivered(uid, taskresult_id, state) ==
    IF taskresult_id # NoTid
    THEN IF TaskResultRows(taskresult_id) = {} THEN DumpNone
         ELSE {Outcome(200, ResultBody(TaskResultRow(taskresult_id)), State)}
    ELSE IF NodeRows(uid) = {} THEN {Outcome(500, ErrorBody, State)}
    ELSE IF state = "open"
         THEN LET results == {r \in TaskResultsOf(NodeRow(uid)) : IsOpen(r)}
              IN {Outcome(200, ResultsBody(results),
                          [State EXCEPT !.taskresults =
                              (taskresults \ results)
                              \cup {[r EXCEPT !.finished_at = 1] : r \in results}])}
         ELSE {Outcome(200, ResultsBody(TaskResultsOf(NodeRow(uid))), State)}

\* mutant of NodeTasks_get: a poll hands out one open result at a time
NodeTasks_getOneAtATime(uid, taskresult_id, state) ==
    IF taskresult_id # NoTid
    THEN IF TaskResultRows(taskresult_id) = {} THEN DumpNone
         ELSE {Outcome(200, ResultBody(TaskResultRow(taskresult_id)), State)}
    ELSE IF NodeRows(uid) = {} THEN {Outcome(500, ErrorBody, State)}
    ELSE IF state = "open"
         THEN LET results == {r \in TaskResultsOf(NodeRow(uid)) : IsOpen(r)}
              IN {Outcome(200,
                          ResultsBody(IF results = {} THEN {}
                                      ELSE {CHOOSE r \in results :
                                               \A q \in results : r.id <= q.id}),
                          State)}
         ELSE {Outcome(200, ResultsBody(TaskResultsOf(NodeRow(uid))), State)}

\* GET /node/<uid>/task and GET /node/<uid>/task/<taskresult_id>: the outcomes the
\* handler can end in. It reads neither g.user nor g.node. With a taskresult_id it
\* dumps what db.TaskResult.get found; without, node.taskresults of what db.Node.get
\* found, and None.taskresults raises when no node has that id.
NodeTasks_get(uid, taskresult_id, state) ==
    IF taskresult_id # NoTid
    THEN IF TaskResultRows(taskresult_id) = {} THEN DumpNone
         ELSE {Outcome(200, ResultBody(TaskResultRow(taskresult_id)), State)}
    ELSE IF NodeRows(uid) = {} THEN {Outcome(500, ErrorBody, State)}
    ELSE IF state = "open"
         THEN {Outcome(200, ResultsBody({r \in TaskResultsOf(NodeRow(uid)) : IsOpen(r)}), State)}
         ELSE {Outcome(200, ResultsBody(TaskResultsOf(NodeRow(uid))), State)}

----------------------------------------------------------------------------
(* The state machine: one action per request.                              *)

Last(op, user, uid, status) == [op |-> op, user |-> user, uid |-> uid, status |-> status]

\* The database the server is started on: the organizations, users and
\* collaborations above, and a node of org1 registered for collabA to which the
\* external task assignment gave two TaskResults, one still open, one finished.
FirstKey == Str(Uuid1(0))

FirstNode ==
    [ id |-> 1, name |-> "org1 - collabA Node", organization_id |-> 1,
      collaboration_id |-> 1, api_key |-> FirstKey ]

Init ==
    /\ nodes = {FirstNode}
    /\ next_id = 2
    /\ clock = Uuid1(0).time
    /\ collaborations = CollaborationTable
    /\ taskresults = { [id |-> 1, node_id |-> 1, finished_at |-> None],
                       [id |-> 2, node_id |-> 1, finished_at |-> 1] }
    /\ issued = {FirstKey}
    /\ last = Last("none", 0, NoUid, 0)
    /\ inflight = [c \in Clients |-> Idle]

\* the api_keys of the rows a handler added
NewKeys(r) == {n.api_key : n \in r.state.nodes \ nodes}

\* the request is handled: the handler's outcome r becomes the state
Handle(op, user, uid, r) ==
    \E o \in {r} :
        /\ o.state.next_id <= MaxNodes + 1
        /\ nodes' = o.state.nodes
        /\ next_id' = o.state.next_id
        /\ clock' = o.state.clock
        /\ collaborations' = o.state.collaborations
        /\ taskresults' = o.state.taskresults
        /\ issued' = issued \cup NewKeys(o)
        /\ last' = Last(op, user.id, uid, o.status)
        /\ UNCHANGED inflight

GetNodes(user) == Handle("Nodes.get", user, NoUid, Nodes_get(user))

PostNodes(user, raw) == Handle("Nodes.post", user, NoUid, Nodes_post(user, raw))

GetNode(user, uid) == Handle("Node.get", user, uid, Node_get(user, uid))

DeleteNode(user, uid) == Handle("Node.delete", user, uid, Node_delete(user, uid))

PutNode(user, uid, raw) == Handle("Node.put", user, uid, Node_put(user, uid, raw))

Next ==
    \/ \E user \in Users : GetNodes(user)
    \/ \E user \in Users, raw \in RawBodies : PostNodes(user, raw)
    \/ \E user \in Users, uid \in Uids : GetNode(user, uid)
    \/ \E user \in Users, uid \in Uids : DeleteNode(user, uid)
    \/ \E user \in Users, uid \in Uids, raw \in RawBodies : PutNode(user, uid, raw)

Spec == Init /\ [][Next]_vars

----------------------------------------------------------------------------
(* The requests as they arrive: a credential, the gate of the decorator,    *)
(* the handler; and the external steps that assign tasks and submit results.*)

NoCredential == <<>>

BadCredential == <<"garbage", 0, "">>

\* the session credential of a user
UserToken(user) == <<"jwt", user.id, "user">>

\* what a request may carry: nothing, garbage, the session of a user,
\* an api_key issued to a node that is in the store or was deleted from it
Credentials ==
    {NoCredential, BadCredential} \cup {UserToken(u) : u \in Users} \cup issued

\* the callers of the requests below: the session of the admin, and the api_key
\* of a node that is in the store or was deleted from it (then no credential any more)
Callers ==
    {UserToken(u) : u \in {v \in Users : v.roles = "admin"}} \cup issued

\* the path ids of the requests below: ids of rows, of deleted rows, and the id
\* the store assigns next, which no node has
PathUids == 1..next_id

NoPrincipal == [kind |-> "none", id |-> 0, organization_id |-> 0, roles |-> ""]

\* g.user
UserPrincipal(user) ==
    [ kind |-> "user", id |-> user.id,
      organization_id |-> user.organization_id, roles |-> user.roles ]

\* g.node
NodePrincipal(node) ==
    [ kind |-> "node", id |-> node.id,
      organization_id |-> node.organization_id, roles |-> "" ]

\* the gate resolves the credential to one principal, or to none
Authenticate(cred) ==
    IF \E u \in Users : UserToken(u) = cred
    THEN UserPrincipal(CHOOSE u \in Users : UserToken(u) = cred)
    ELSE IF \E n \in nodes : n.api_key = cred
    THEN NodePrincipal(CHOOSE n \in nodes : n.api_key = cred)
    ELSE NoPrincipal

\* the principals an access mode lets through to the handler
Admitted(mode, g) ==
    IF mode = "with_user" THEN g.kind = "user"
    ELSE IF mode = "with_node" THEN g.kind = "node"
    ELSE g.kind \in {"user", "node"}

\* mutant of AccessMode: every method is decorated with_user_or_node
AccessModeEither(op) == "with_user_or_node"

\* the decorator of each method
AccessMode(op) ==
    IF op = "NodeTasks.get" THEN "with_user_or_node" ELSE "with_user"

\* the outcomes of a request: 401 from the gate, or what the handler does
Request(op, cred, uid, raw, taskresult_id, state) ==
    LET g == Authenticate(cred) IN
    IF ~Admitted(AccessMode(op), g) THEN {Outcome(401, MsgBody, State)}
    ELSE IF op = "Nodes.get" THEN {Nodes_get(g)}
    ELSE IF op = "Nodes.post" THEN {Nodes_post(g, raw)}
    ELSE IF op = "Node.get" THEN {Node_get(g, uid)}
    ELSE IF op = "Node.delete" THEN {Node_delete(g, uid)}
    ELSE IF op = "Node.put" THEN {Node_put(g, uid, raw)}
    ELSE NodeTasks_get(uid, taskresult_id, state)

LastRequest(op, cred, uid, taskresult_id, state, status) ==
    [ op |-> op, user |-> cred, uid |-> uid, status |-> status,
      taskresult_id |-> taskresult_id, state |-> state ]

\* the request is served: one of its outcomes becomes the state
Serve(op, cred, uid, raw, taskresult_id, state) ==
    \E o \in Request(op, cred, uid, raw, taskresult_id, state) :
        /\ o.state.next_id <= MaxNodes + 1
        /\ nodes' = o.state.nodes
        /\ next_id' = o.state.next_id
        /\ clock' = o.state.clock
        /\ collaborations' = o.state.collaborations
        /\ taskresults' = o.state.taskresults
        /\ issued' = issued \cup NewKeys(o)
        /\ last' = LastRequest(op, cred, uid, taskresult_id, state, o.status)
        /\ UNCHANGED inflight

RequestNodesGet(cred) == Serve("Nodes.get", cred, NoUid, NoBody, NoTid, "None")

RequestNodeGet(cred, uid) == Serve("Node.get", cred, uid, NoBody, NoTid, "None")

RequestNodeDelete(cred, uid) == Serve("Node.delete", cred, uid, NoBody, NoTid, "None")

\* GET /node/<uid>/task
RequestNodeTasks(cred, uid, state) == Serve("NodeTasks.get", cred, uid, NoBody, NoTid, state)

\* GET /node/<uid>/task/<taskresult_id>
RequestNodeTask(cred, uid, taskresult_id) ==
    Serve("NodeTasks.get", cred, uid, NoBody, taskresult_id, "None")

\* external: a task is assigned to a node of the store, an open TaskResult is created
AssignTask(uid) ==
    /\ Cardinality(taskresults) < MaxResults
    /\ NodeRows(uid) # {}
    /\ taskresults' = taskresults \cup
          {[id |-> Cardinality(taskresults) + 1, node_id |-> uid, finished_at |-> None]}
    /\ last' = LastRequest("AssignTask", NoCredential, uid, NoTid, "None", 0)
    /\ UNCHANGED <<nodes, next_id, clock, collaborations, issued, inflight>>

\* external: the node submits its result, the TaskResult is finished
SubmitResult(taskresult_id) ==
    /\ \E t \in TaskResultRows(taskresult_id) :
          /\ t.finished_at = None
          /\ taskresults' = (taskresults \ {t}) \cup {[t EXCEPT !.finished_at = 1]}
    /\ last' = LastRequest("SubmitResult", NoCredential, NoUid, taskresult_id, "None", 0)
    /\ UNCHANGED <<nodes, next_id, clock, collaborations, issued, inflight>>

\* the database of Init after a node of org2 was registered for collabA
\* (POST /nodes by the member of org2)
SecondNode ==
    [ id |-> 2, name |-> "org2 - collabA Node", organization_id |-> 2,
      collaboration_id |-> 1, api_key |-> Str(Uuid1(Uuid1(0).time)) ]

ApiInit ==
    /\ nodes = {FirstNode, SecondNode}
    /\ next_id = 3
    /\ clock = Uuid1(Uuid1(0).time).time
    /\ collaborations = CollaborationTable
    /\ taskresults = { [id |-> 1, node_id |-> 1, finished_at |-> None],
                       [id |-> 2, node_id |-> 1, finished_at |-> 1] }
    /\ issued = {FirstNode.api_key, SecondNode.api_key}
    /\ last = LastRequest("none", NoCredential, NoUid, NoTid, "None", 0)
    /\ inflight = [c \in Clients |-> Idle]

ApiNext ==
    \/ \E cred \in Callers : RequestNodesGet(cred)
    \/ \E cred \in Callers, uid \in PathUids : RequestNodeGet(cred, uid)
    \/ \E cred \in Callers, uid \in PathUids : RequestNodeDelete(cred, uid)
    \/ \E cred \in Callers, uid \in PathUids, state \in StateArgs :
          RequestNodeTasks(cred, uid, state)
    \/ \E cred \in Callers, uid \in PathUids, taskresult_id \in Tids :
          RequestNodeTask(cred, uid, taskresult_id)
    \/ \E uid \in PathUids : AssignTask(uid)
    \/ \E taskresult_id \in Tids : SubmitResult(taskresult_id)

ApiSpec == ApiInit /\ [][ApiNext]_vars

----------------------------------------------------------------------------
(* Two clients at once: each handler as a read step (parse, db.Node.get,    *)
(* the checks, uuid.uuid1()) followed, when it was not refused, by a write  *)
(* step (node.save() or node.delete(), then the return), with the other     *)
(* client's steps in between.                                               *)

\* the bodies the concurrent requests carry
RaceBodies ==
    {[kind |-> "absent", val |-> 0], [kind |-> "int", val |-> 1], [kind |-> "int", val |-> 2]}

\* what the write step of a request does: a new row is saved, the row read is saved
\* with its change, or the row read is deleted
WriteKind(op, uid) ==
    IF op = "Node.delete" THEN "delete"
    ELSE IF op = "Nodes.post" \/ NodeRows(uid) = {} THEN "create"
    ELSE "update"

\* the request after its read step: refused and answered (r.status is no success),
\* or holding the row it read and the object it is about to write
AfterRead(op, user, uid, r) ==
    IF r.status \notin {200, 201}
    THEN [ pc |-> "done", op |-> op, user |-> user.id, uid |-> uid, status |-> r.status,
           kind |-> "none", read |-> NoNode, node |-> NoNode ]
    ELSE [ pc |-> "write", op |-> op, user |-> user.id, uid |-> uid, status |-> r.status,
           kind |-> WriteKind(op, uid),
           read |-> IF WriteKind(op, uid) = "create" THEN NoNode ELSE NodeRow(uid),
           node |-> IF WriteKind(op, uid) = "delete" THEN NodeRow(uid) ELSE r.body.node ]

\* mutant of WriteOutcome: the write is refused when the row read is no longer the
\* row of the store (a concurrency token)
WriteOutcomeVersioned(req) ==
    IF req.kind = "create"
    THEN Outcome(req.status, NodeBody(Saved(req.node)), StateAfterCreate(req.node, clock))
    ELSE IF req.read \notin nodes THEN Outcome(409, MsgBody, State)
    ELSE IF req.kind = "update"
    THEN Outcome(req.status, NodeBody(req.node), StateAfterSave(req.node))
    ELSE Outcome(req.status, NoBody, StateAfterRemove(req.node))

\* the write step and the return: node.save() of the new node, node.save() of the
\* node read and changed, node.delete() of the node read; nothing is compared with
\* what the store holds by now
WriteOutcome(req) ==
    IF req.kind = "create"
    THEN Outcome(req.status, NodeBody(Saved(req.node)), StateAfterCreate(req.node, clock))
    ELSE IF req.kind = "update"
    THEN Outcome(req.status, NodeBody(req.node), StateAfterSave(req.node))
    ELSE Outcome(req.status, NoBody, StateAfterRemove(req.node))

\* the read step of client c's request, r being what the handler decides on the
\* store as it is now; a refusal is answered at once
Begin(c, op, user, uid, r) ==
    \E o \in {r} :
        /\ inflight[c].pc = "idle"
        /\ clock' = o.state.clock
        /\ issued' = issued \cup NewKeys(o)
        /\ inflight' = [inflight EXCEPT ![c] = AfterRead(op, user, uid, o)]
        /\ last' = IF o.status \in {200, 201} THEN last
                   ELSE Last(op, user.id, uid, o.status)
        /\ UNCHANGED <<nodes, next_id, collaborations, taskresults>>

BeginPost(c, user, raw) == Begin(c, "Nodes.post", user, NoUid, Nodes_post(user, raw))

BeginPut(c, user, uid, raw) == Begin(c, "Node.put", user, uid, Node_put(user, uid, raw))

BeginDelete(c, user, uid) == Begin(c, "Node.delete", user, uid, Node_delete(user, uid))

\* the write step of client c's request, and its answer
Write(c) ==
    /\ inflight[c].pc = "write"
    /\ \E o \in {WriteOutcome(inflight[c])} :
          /\ nodes' = o.state.nodes
          /\ next_id' = o.state.next_id
          /\ clock' = o.state.clock
          /\ collaborations' = o.state.collaborations
          /\ taskresults' = o.state.taskresults
          /\ inflight' = [inflight EXCEPT ![c] =
                [@ EXCEPT !.pc = "done", !.status = o.status,
                          !.node = IF o.body.kind = "node" THEN o.body.node ELSE @]]
          /\ last' = Last(inflight[c].op, inflight[c].user, inflight[c].uid, o.status)
    /\ UNCHANGED issued

RaceNext ==
    \/ \E c \in Clients, user \in Users, raw \in RaceBodies : BeginPost(c, user, raw)
    \/ \E c \in Clients, user \in Users, uid \in PathUids, raw \in RaceBodies :
          BeginPut(c, user, uid, raw)
    \/ \E c \in Clients, user \in Users, uid \in PathUids : BeginDelete(c, user, uid)
    \/ \E c \in Clients : Write(c)

RaceSpec == Init /\ [][RaceNext]_vars

----------------------------------------------------------------------------
(* Vocabulary of the properties, stated on the store and the request.      *)

NodeIds == {n.id : n \in nodes}

Exists(uid) == \E n \in nodes : n.id = uid

TheNode(uid) == CHOOSE n \in nodes : n.id = uid

\* allow <=> role == admin OR node.organization_id == caller.organization_id
Allow(user, node) ==
    user.roles = "admin" \/ node.organization_id = user.organization_id

IsAdmin(user) == user.roles = "admin"

\* the body carries a collaboration_id that is an integer
WellFormed(raw) == raw.kind \in {"int", "digits"}

\* the body carries the id of a Collaboration of the store
KnownCollaboration(raw) ==
    WellFormed(raw) /\ \E c \in collaborations : c.id = raw.val

\* "<organization> - <collaboration> Node"
ExpectedName(organization_id, collaboration_id) ==
    IF organization_id = 1 /\ collaboration_id = 1 THEN "org1 - collabA Node"
    ELSE IF organization_id = 1 /\ collaboration_id = 2 THEN "org1 - collabB Node"
    ELSE IF organization_id = 2 /\ collaboration_id = 1 THEN "org2 - collabA Node"
    ELSE "org2 - collabB Node"

\* the handler answered with a message and left the state as it was
Refused(r, status) == r.status = status /\ r.body = MsgBody /\ r.state = State

\* the handler added exactly the row it returns, and changed nothing else of the store
AddedOne(r) ==
    /\ r.body.kind = "node"
    /\ r.body.node \notin nodes
    /\ r.state.nodes = nodes \cup {r.body.node}
    /\ r.state.collaborations = collaborations
    /\ r.state.taskresults = taskresults

\* the handler left every node of the other organizations in the store, untouched,
\* and returned none of them
Contained(user, r) ==
    LET foreign == {n \in nodes : n.organization_id # user.organization_id}
    IN /\ foreign \subseteq r.state.nodes
       /\ r.body.kind = "node" => r.body.node \notin foreign
       /\ r.body.kind = "nodes" => r.body.nodes \cap foreign = {}

\* the user whose request was handled last
LastUser == CHOOSE u \in Users : u.id = last.user

\* a creation has just succeeded
CreationSucceeded ==
    \/ last.op = "Nodes.post" /\ last.status = 201
    \/ last.op = "Node.put" /\ last.status = 200 /\ last.uid \notin NodeIds

----------------------------------------------------------------------------
(* C1: no two nodes of the store hold the same api_key, and the api_key a   *)
(* successful creation (POST /nodes, PUT /node/<uid> on an absent uid)      *)
(* returns is none of the api_keys issued before, whatever updates and      *)
(* deletes came in between.                                                 *)
ApiKeysUnique ==
    /\ \A n1, n2 \in nodes : n1.api_key = n2.api_key => n1.id = n2.id
    /\ \A n \in nodes : n.api_key \in issued
    /\ \A user \in Users, raw \in RawBodies :
          \A r \in {Nodes_post(user, raw)} :
             r.status = 201 => r.body.node.api_key \notin issued
    /\ \A user \in Users, uid \in Uids \ NodeIds, raw \in RawBodies :
          \A r \in {Node_put(user, uid, raw)} :
             r.status = 200 => r.body.node.api_key \notin issued

\* a creation has just succeeded after an earlier node was created and deleted
ApiKeysUniqueWitness ==
    /\ CreationSucceeded
    /\ Cardinality(issued) >= 2
    /\ Cardinality(nodes) < Cardinality(issued)

(* C2: GET /nodes by a non-admin returns exactly the nodes of the caller's  *)
(* organization, and by an admin every node of the store.                   *)
ListScopedToOrganization ==
    \A user \in Users :
        \A r \in {Nodes_get(user)} :
           /\ r.status = 200
           /\ r.body.kind = "nodes"
           /\ IsAdmin(user) => r.body.nodes = nodes
           /\ ~IsAdmin(user) =>
                 r.body.nodes = {n \in nodes : n.organization_id = user.organization_id}

\* a non-admin asked for the list while the store held nodes of both organizations
ListScopedWitness ==
    /\ last.op = "Nodes.get"
    /\ ~IsAdmin(LastUser)
    /\ \E n1, n2 \in nodes : n1.organization_id = 1 /\ n2.organization_id = 2

(* C3, as amended: on an existing node the rule                             *)
(* allow <=> admin or same organization decides GET, DELETE and every PUT   *)
(* whose body parses: denied is 403 with no data and no change, allowed is  *)
(* carried out. A PUT whose collaboration_id is missing or malformed is     *)
(* answered 400 before the node is looked up, allowed or not, with no data  *)
(* and no change. No request of a non-admin changes, removes or returns a   *)
(* node of another organization.                                            *)
AuthorizationRuleGoverns ==
    /\ \A user \in Users, uid \in Uids :
          \A g \in {Node_get(user, uid)}, d \in {Node_delete(user, uid)} :
             /\ (Exists(uid) /\ ~Allow(user, TheNode(uid))) =>
                   Refused(g, 403) /\ Refused(d, 403)
             /\ (Exists(uid) /\ Allow(user, TheNode(uid))) =>
                   /\ g.status = 200 /\ g.body = NodeBody(TheNode(uid))
                   /\ d.status = 200 /\ d.state.nodes = nodes \ {TheNode(uid)}
             /\ ~IsAdmin(user) => Contained(user, g) /\ Contained(user, d)
    /\ \A user \in Users, uid \in Uids, raw \in RawBodies :
          \A p \in {Node_put(user, uid, raw)} :
             /\ (Exists(uid) /\ ~Allow(user, TheNode(uid))) =>
                   Refused(p, IF WellFormed(raw) THEN 403 ELSE 400)
             /\ (Exists(uid) /\ Allow(user, TheNode(uid)) /\ WellFormed(raw)) =>
                   /\ p.status = 200
                   /\ [TheNode(uid) EXCEPT !.collaboration_id = raw.val] \in p.state.nodes
             /\ (Exists(uid) /\ Allow(user, TheNode(uid)) /\ ~WellFormed(raw)) =>
                   Refused(p, 400)
             /\ ~IsAdmin(user) => Contained(user, p)
    /\ \A user \in Users :
          ~IsAdmin(user) =>
              /\ \A l \in {Nodes_get(user)} : Contained(user, l)
              /\ \A raw \in RawBodies : \A c \in {Nodes_post(user, raw)} : Contained(user, c)

\* a PUT or DELETE on a node of another organization has just been refused
AuthorizationRuleWitness ==
    /\ last.op \in {"Node.put", "Node.delete"}
    /\ last.status = 403
    /\ Exists(last.uid)
    /\ ~Allow(LastUser, TheNode(last.uid))

\* C3 as stated: on an existing node, denied is always 403, allowed is always carried out
AuthorizationRuleAsStated ==
    \A user \in Users, uid \in Uids, raw \in RawBodies :
        LET p == Node_put(user, uid, raw)
            g == Node_get(user, uid)
            d == Node_delete(user, uid)
        IN Exists(uid) =>
              IF Allow(user, TheNode(uid))
              THEN p.status = 200 /\ g.status = 200 /\ d.status = 200
              ELSE Refused(p, 403) /\ Refused(g, 403) /\ Refused(d, 403)

(* C4: GET /node/<uid> is 404 if no node has that id, else 403 if the       *)
(* caller is no admin and of another organization, else 200 with the node;  *)
(* the store is unchanged in all three cases.                               *)
NodeGetOutcomes ==
    \A user \in Users, uid \in Uids :
        \A r \in {Node_get(user, uid)} :
           /\ r.state = State
           /\ IF ~Exists(uid) THEN r.status = 404 /\ r.body = MsgBody
              ELSE IF ~IsAdmin(user)
                      /\ TheNode(uid).organization_id # user.organization_id
              THEN r.status = 403 /\ r.body = MsgBody
              ELSE r.status = 200 /\ r.body = NodeBody(TheNode(uid))

\* a GET on an existing node of another organization was answered 403
NodeGetOutcomesWitness ==
    /\ last.op = "Node.get"
    /\ last.status = 403
    /\ Exists(last.uid)
    /\ TheNode(last.uid).organization_id # LastUser.organization_id

(* C5, as amended: for a non-admin caller and a uid that denotes no node of *)
(* the caller's organization, GET /node/<uid> is 403 when a node with that  *)
(* id exists and 404 when none does; the node is returned in neither case.  *)
ForbiddenOnlyIfExists ==
    \A user \in Users, uid \in Uids :
        (/\ ~IsAdmin(user)
         /\ ~\E n \in nodes : n.id = uid /\ n.organization_id = user.organization_id)
        => \A r \in {Node_get(user, uid)} :
              /\ r.status = (IF Exists(uid) THEN 403 ELSE 404)
              /\ r.body.kind # "node"

\* a GET by a non-admin on a uid that is not in the store was answered 404
ForbiddenOnlyIfExistsWitness ==
    /\ last.op = "Node.get"
    /\ ~IsAdmin(LastUser)
    /\ ~Exists(last.uid)
    /\ last.status = 404

\* C5 as stated: a GET by a non-admin on a uid that denotes no node of the caller's
\* organization, in the store or not, is answered 403
ForbiddenRegardlessOfExistence ==
    (/\ last.op = "Node.get"
     /\ ~IsAdmin(LastUser)
     /\ ~\E n \in nodes : n.id = last.uid /\ n.organization_id = LastUser.organization_id)
    => last.status = 403

(* C6: a create request (POST /nodes, PUT /node/<uid> on an absent uid)     *)
(* whose collaboration_id is missing, malformed or references no            *)
(* Collaboration is answered 400 and changes nothing: no node is added and  *)
(* no api_key is issued.                                                    *)
BadCollaborationRejected ==
    \A user \in Users, raw \in RawBodies :
        ~KnownCollaboration(raw) =>
            /\ Refused(Nodes_post(user, raw), 400)
            /\ \A uid \in Uids : ~Exists(uid) => Refused(Node_put(user, uid, raw), 400)

\* a create request has just been answered 400
BadCollaborationWitness ==
    \/ last.op = "Nodes.post" /\ last.status = 400
    \/ last.op = "Node.put" /\ last.status = 400 /\ ~Exists(last.uid)

(* C7: POST /nodes with the id of an existing Collaboration, by a member or *)
(* an admin, is answered 201 and adds exactly one node: its id assigned by  *)
(* the store, its organization the caller's, its collaboration the          *)
(* requested one, its name "<organization> - <collaboration> Node", its     *)
(* api_key fresh; every other node, collaboration and task result stays.    *)
PostCreatesOneNode ==
    \A user \in Users, raw \in RawBodies :
        KnownCollaboration(raw) =>
            \A r \in {Nodes_post(user, raw)} :
               /\ r.status = 201
               /\ AddedOne(r)
               /\ r.body.node.id = next_id
               /\ r.body.node.id \notin NodeIds
               /\ r.body.node.organization_id = user.organization_id
               /\ r.body.node.collaboration_id = raw.val
               /\ r.body.node.name = ExpectedName(user.organization_id, raw.val)
               /\ r.body.node.api_key \notin issued

\* a POST by the admin has just been answered 201, beside another node and task results
PostCreatesOneNodeWitness ==
    /\ last.op = "Nodes.post"
    /\ last.status = 201
    /\ IsAdmin(LastUser)
    /\ Cardinality(nodes) >= 2
    /\ taskresults # {}

(* C8, as amended: PUT /node/<uid> on an absent uid validates like POST     *)
(* /nodes with the same body and caller and leaves the same store (one new  *)
(* node, same organization, collaboration, name, fresh api_key, its id      *)
(* assigned by the store and not taken from uid), and returns the same      *)
(* body; a refusal is 400 for both, but the creation is answered 200 by PUT *)
(* where POST answers 201.                                                  *)
PutAbsentCreatesLikePost ==
    \A user \in Users, uid \in Uids \ NodeIds, raw \in RawBodies :
        ~Exists(uid) =>
            LET p == Node_put(user, uid, raw)
                c == Nodes_post(user, raw)
            IN /\ p.state = c.state
               /\ p.body = c.body
               /\ c.status = 400 => p.status = 400
               /\ c.status = 201 => p.status = 200 /\ p.body.node.id = next_id

\* a PUT on an absent uid has just created a node under another id
PutAbsentWitness ==
    /\ last.op = "Node.put"
    /\ last.status = 200
    /\ last.uid \notin NodeIds
    /\ nodes # {}

\* C8 as stated: status included, PUT on an absent uid answers as POST does
PutAbsentSameAsPost ==
    \A user \in Users, uid \in Uids, raw \in RawBodies :
        ~Exists(uid) => Node_put(user, uid, raw) = Nodes_post(user, raw)

\* C9 as stated: a PUT on an existing node, by a caller the rule allows, whose
\* collaboration_id references no Collaboration is answered 400 and changes nothing
UpdateValidatesCollaboration ==
    \A user \in Users, uid \in NodeIds, raw \in RawBodies :
        (Allow(user, TheNode(uid)) /\ ~KnownCollaboration(raw))
        => Refused(Node_put(user, uid, raw), 400)

(* C10: a successful PUT /node/<uid> on an existing node changes only that  *)
(* node's collaboration_id, to the requested value: id, organization_id,    *)
(* name and api_key stay (no new api_key), no node is added or removed, and *)
(* every other node and every task result is unchanged.                     *)
UpdateChangesOnlyCollaboration ==
    \A user \in Users, uid \in NodeIds, raw \in RawBodies :
        \A r \in {Node_put(user, uid, raw)} :
           (Exists(uid) /\ r.status = 200) =>
              LET old == TheNode(uid)
                  new == r.body.node
              IN /\ WellFormed(raw)
                 /\ new.collaboration_id = raw.val
                 /\ new.id = old.id
                 /\ new.organization_id = old.organization_id
                 /\ new.name = old.name
                 /\ new.api_key = old.api_key
                 /\ r.state.nodes = (nodes \ {old}) \cup {new}
                 /\ Cardinality(r.state.nodes) = Cardinality(nodes)
                 /\ r.state.next_id = next_id
                 /\ r.state.clock = clock
                 /\ r.state.collaborations = collaborations
                 /\ r.state.taskresults = taskresults

\* a PUT has just moved a node from the collaboration it was created for to another,
\* beside another node and task results
UpdateWitness ==
    /\ last.op = "Node.put"
    /\ last.status = 200
    /\ Exists(last.uid)
    /\ TheNode(last.uid).name = "org1 - collabA Node"
    /\ TheNode(last.uid).collaboration_id = 2
    /\ Cardinality(nodes) >= 2
    /\ taskresults # {}

(* C11: DELETE /node/<uid> for a uid that is not in the store, never made  *)
(* or deleted earlier, is answered 404 and changes nothing in the store.    *)
DeleteAbsentIsNotFound ==
    \A user \in Users, uid \in Uids :
        ~Exists(uid) => Refused(Node_delete(user, uid), 404)

\* a DELETE on the id of a node that was deleted earlier has just been answered 404
DeleteAbsentWitness ==
    /\ last.op = "Node.delete"
    /\ last.status = 404
    /\ last.uid < next_id
    /\ ~Exists(last.uid)

(* C12: a DELETE /node/<uid> the rule allows, on an existing node, removes  *)
(* exactly that node: every other node, every collaboration and every       *)
(* TaskResult row stays as it was (the results of the deleted node          *)
(* included), and afterwards GET /node/<uid> is 404 for every caller and no *)
(* list holds the node.                                                     *)
DeleteRemovesExactlyTheNode ==
    /\ \A user \in Users, uid \in NodeIds :
          Allow(user, TheNode(uid)) =>
              \A d \in {Node_delete(user, uid)} :
                 /\ d.status = 200
                 /\ d.state = [State EXCEPT !.nodes = nodes \ {TheNode(uid)}]
    /\ (last.op = "Node.delete" /\ last.status = 200) =>
          /\ ~Exists(last.uid)
          /\ \A user \in Users :
                /\ Node_get(user, last.uid).status = 404
                /\ \A n \in Nodes_get(user).body.nodes : n.id # last.uid

\* a node that has task results has just been deleted, beside another node
DeleteWitness ==
    /\ last.op = "Node.delete"
    /\ last.status = 200
    /\ \E t \in taskresults : t.node_id = last.uid
    /\ nodes # {}

----------------------------------------------------------------------------
(* Vocabulary of the properties of the task endpoints and of the gate.     *)

ResultIds == {t.id : t \in taskresults}

TheResult(tid) == CHOOSE t \in taskresults : t.id = tid

\* the credential is the session of a user
IsUserCredential(cred) == \E u \in Users : cred = UserToken(u)

\* the credential is the api_key of a node of the store
IsNodeCredential(cred) == \E n \in nodes : cred = n.api_key

\* the node a node credential stands for
NodeOfKey(cred) == CHOOSE n \in nodes : n.api_key = cred

\* the user a user credential stands for
UserOfToken(cred) == CHOOSE u \in Users : cred = UserToken(u)

AdminToken == UserToken(CHOOSE u \in Users : u.roles = "admin")

\* request bodies: without the field, and with the id of a Collaboration
SomeBodies == {[kind |-> "absent", val |-> 0], [kind |-> "int", val |-> 1]}

\* GET /node/<uid>/task[?state=...] as the caller with that credential sees it
Poll(cred, uid, state) == Request("NodeTasks.get", cred, uid, NoBody, NoTid, state)

\* GET /node/<uid>/task/<taskresult_id> as the caller with that credential sees it
Fetch(cred, uid, tid) == Request("NodeTasks.get", cred, uid, NoBody, tid, "None")

\* the request served last was a poll of the list, and was let through the gate
PollServed ==
    last.op = "NodeTasks.get" /\ last.taskresult_id = NoTid /\ last.status # 401

\* the request served last was a fetch of a single result, and was let through the gate
FetchServed ==
    last.op = "NodeTasks.get" /\ last.taskresult_id # NoTid /\ last.status # 401

(* C13: for every node uid of the store and every user or node that calls,  *)
(* GET /node/<uid>/task?state=open returns exactly the TaskResults of that  *)
(* node whose finished_at is unset, and GET /node/<uid>/task without state, *)
(* or with another state value, returns all TaskResults of that node and    *)
(* none of another node; the store is unchanged.                            *)
TaskListFiltered ==
    \A uid \in NodeIds, cred \in Credentials, state \in StateArgs :
        (IsUserCredential(cred) \/ IsNodeCredential(cred)) =>
            Poll(cred, uid, state) =
                { Outcome(200,
                          ResultsBody(IF state = "open"
                                      THEN {t \in taskresults :
                                               t.node_id = uid /\ t.finished_at = None}
                                      ELSE {t \in taskresults : t.node_id = uid}),
                          State) }

\* a poll with state=open has just been answered for a node that has an open and a
\* finished result, while another node has an open result of its own
TaskListWitness ==
    /\ PollServed
    /\ last.state = "open"
    /\ last.status = 200
    /\ \E t1, t2 \in taskresults :
          /\ t1.node_id = last.uid /\ t1.finished_at = None
          /\ t2.node_id = last.uid /\ t2.finished_at # None
    /\ \E t \in taskresults : t.node_id # last.uid /\ t.finished_at = None

\* C14 as stated: what a Node principal N receives from GET /node/<uid>/task and
\* GET /node/<uid>/task/<taskresult_id>, for any uid, are TaskResults of node N only
TaskResultsScopedToNode ==
    (last.op = "NodeTasks.get" /\ IsNodeCredential(last.user)) =>
        \A r \in Request("NodeTasks.get", last.user, last.uid, NoBody,
                         last.taskresult_id, last.state) :
           /\ r.body.kind = "results" =>
                 \A t \in r.body.results : t.node_id = NodeOfKey(last.user).id
           /\ r.body.kind = "result" => r.body.result.node_id = NodeOfKey(last.user).id

(* C15: GET /node/<uid>/task/<taskresult_id> answers by taskresult_id       *)
(* alone: for a result of the store it is 200 with that result, and in      *)
(* every store the answer is the same for every uid (of the owning node, of *)
(* another node, of no node) and every user or node that calls, of any      *)
(* organization.                                                            *)
SingleResultByIdAlone ==
    \A tid \in Tids :
        \A ref \in {Fetch(AdminToken, 1, tid)} :
           /\ tid \in ResultIds => ref = {Outcome(200, ResultBody(TheResult(tid)), State)}
           /\ \A cred \in Credentials, uid \in PathUids :
                 (IsUserCredential(cred) \/ IsNodeCredential(cred)) =>
                     Fetch(cred, uid, tid) = ref

\* a node has just fetched, under a uid that denotes no node, a result of a node of
\* another organization
SingleResultWitness ==
    /\ FetchServed
    /\ last.status = 200
    /\ IsNodeCredential(last.user)
    /\ ~Exists(last.uid)
    /\ last.taskresult_id \in ResultIds
    /\ \E n \in nodes :
          /\ n.id = TheResult(last.taskresult_id).node_id
          /\ n.organization_id # NodeOfKey(last.user).organization_id

\* C16 as stated: a poll on a uid that denotes no node, and a fetch of a taskresult_id
\* that denotes no TaskResult, are answered 404
MissingEntityIsNotFound ==
    /\ (PollServed /\ ~Exists(last.uid)) => last.status = 404
    /\ (FetchServed /\ last.taskresult_id \notin ResultIds) => last.status = 404

\* the gate answered 401 and nothing changed
Rejected(rs) == rs = {Outcome(401, MsgBody, State)}

(* C17: GET and POST /nodes and GET, PUT and DELETE /node/<uid> run their   *)
(* handler for the session of a user and for nothing else; the task         *)
(* endpoints run theirs for the session of a user and for the api_key of a  *)
(* node of the store; any other request (no credential, an invalid one, the *)
(* api_key of a deleted node, a node's api_key on a user-only operation) is *)
(* answered 401 and leaves the store unchanged.                             *)
AccessModesEnforced ==
    \A cred \in Credentials :
        /\ IF IsUserCredential(cred)
           THEN \A user \in {UserOfToken(cred)} :
                   /\ Request("Nodes.get", cred, NoUid, NoBody, NoTid, "None")
                         = {Nodes_get(user)}
                   /\ \A raw \in SomeBodies :
                         Request("Nodes.post", cred, NoUid, raw, NoTid, "None")
                            = {Nodes_post(user, raw)}
                   /\ \A uid \in PathUids :
                         /\ Request("Node.get", cred, uid, NoBody, NoTid, "None")
                               = {Node_get(user, uid)}
                         /\ Request("Node.delete", cred, uid, NoBody, NoTid, "None")
                               = {Node_delete(user, uid)}
                         /\ \A raw \in SomeBodies :
                               Request("Node.put", cred, uid, raw, NoTid, "None")
                                  = {Node_put(user, uid, raw)}
           ELSE /\ Rejected(Request("Nodes.get", cred, NoUid, NoBody, NoTid, "None"))
                /\ \A raw \in SomeBodies :
                      Rejected(Request("Nodes.post", cred, NoUid, raw, NoTid, "None"))
                /\ \A uid \in PathUids :
                      /\ Rejected(Request("Node.get", cred, uid, NoBody, NoTid, "None"))
                      /\ Rejected(Request("Node.delete", cred, uid, NoBody, NoTid, "None"))
                      /\ \A raw \in SomeBodies :
                            Rejected(Request("Node.put", cred, uid, raw, NoTid, "None"))
        /\ \A uid \in PathUids :
              IF IsUserCredential(cred) \/ IsNodeCredential(cred)
              THEN /\ \A state \in StateArgs :
                         Poll(cred, uid, state) = NodeTasks_get(uid, NoTid, state)
                   /\ \A tid \in Tids :
                         Fetch(cred, uid, tid) = NodeTasks_get(uid, tid, "None")
              ELSE /\ \A state \in StateArgs : Rejected(Poll(cred, uid, state))
                   /\ \A tid \in Tids : Rejected(Fetch(cred, uid, tid))

\* a DELETE of a node of the store, with the api_key of a node of the store, has just
\* been answered 401, and the node is still there
AccessModesWitness ==
    /\ last.op = "Node.delete"
    /\ IsNodeCredential(last.user)
    /\ last.status = 401
    /\ Exists(last.uid)

\* C18 as stated: every node of the store has an organization and a collaboration,
\* and its collaboration_id is the id of a Collaboration of the store
NodesReferenceCollaborations ==
    \A n \in nodes :
        /\ \E o \in Organizations : o.id = n.organization_id
        /\ \E c \in collaborations : c.id = n.collaboration_id

\* the step served a request of the node or task resources (not an external step)
CoreStep == last'.op \notin {"AssignTask", "SubmitResult"}

\* the step served a GET
GetStep == last'.op \in {"Nodes.get", "Node.get", "NodeTasks.get"}

\* POST /nodes and PUT /node/<uid>, whatever the credential and the body, leave the
\* TaskResult rows as they are
CreateAndUpdateKeepResults ==
    \A cred \in Credentials, raw \in SomeBodies :
        /\ \A r \in Request("Nodes.post", cred, NoUid, raw, NoTid, "None") :
              r.state.taskresults = taskresults
        /\ \A uid \in PathUids :
              \A r \in Request("Node.put", cred, uid, raw, NoTid, "None") :
                 r.state.taskresults = taskresults

(* C19: no operation of the node and task resources creates, deletes or     *)
(* modifies a TaskResult: every step that serves a request (GET /nodes,     *)
(* GET and DELETE /node/<uid>, GET /node/<uid>/task and                     *)
(* /node/<uid>/task/<taskresult_id>) leaves the TaskResult rows as they     *)
(* were, as POST /nodes and PUT /node/<uid> would in every store reached,   *)
(* and every step that serves a GET leaves the whole store unchanged.       *)
CoreOnlyReadsTaskResults ==
    /\ []CreateAndUpdateKeepResults
    /\ [][ /\ CoreStep => taskresults' = taskresults
           /\ GetStep => UNCHANGED <<nodes, next_id, clock, collaborations, taskresults>>
         ]_vars

\* a node has just polled its own open work, and the result it was given is still open
CoreOnlyReadsWitness ==
    /\ PollServed
    /\ last.state = "open"
    /\ last.status = 200
    /\ IsNodeCredential(last.user)
    /\ NodeOfKey(last.user).id = last.uid
    /\ \E t \in taskresults : t.node_id = last.uid /\ t.finished_at = None

\* a poll of the open results of node uid, by a user or node, returns the result t
Delivered(t, uid) ==
    \A cred \in Credentials :
        (IsUserCredential(cred) \/ IsNodeCredential(cred)) =>
            \A r \in Poll(cred, uid, "open") :
               r.status = 200 /\ r.body.kind = "results" /\ t \in r.body.results

\* no poll of open results, of any uid, returns the result t
Withheld(t) ==
    \A cred \in Credentials, uid \in PathUids :
        \A r \in Poll(cred, uid, "open") :
           r.body.kind = "results" => t \notin r.body.results

\* a step keeps every TaskResult, with its node; a finished one stays as it is, and
\* an open one changes only by the external submission of that result
OnlySubmitFinishes ==
    \A t \in taskresults :
        \E t2 \in taskresults' :
           /\ t2.id = t.id
           /\ t2.node_id = t.node_id
           /\ t.finished_at # None => t2 = t
           /\ t2 # t => last'.op = "SubmitResult" /\ last'.taskresult_id = t.id

(* C20, as amended: an open TaskResult of node uid stays open until the     *)
(* external submission finishes it, and until then every poll               *)
(* GET /node/<uid>/task?state=open by a user or node returns it again,      *)
(* whatever was served in between, as long as node uid is in the store      *)
(* (after DELETE /node/<uid> the result stays open in the store, but the    *)
(* poll no longer answers with it); once finished_at is set the result is   *)
(* never returned under state=open again, and never reopened.               *)
OpenUntilSubmitted ==
    /\ [](\A t \in taskresults :
             IF t.finished_at = None
             THEN Exists(t.node_id) => Delivered(t, t.node_id)
             ELSE Withheld(t))
    /\ [][OnlySubmitFinishes]_vars

\* an open result has just been given to a poll again, after another result of the
\* node was submitted and the other node was deleted
OpenUntilSubmittedWitness ==
    /\ PollServed
    /\ last.state = "open"
    /\ last.status = 200
    /\ \E t \in taskresults : t.node_id = last.uid /\ t.finished_at = None
    /\ \A t \in taskresults : t.id = 1 => t.finished_at # None
    /\ Cardinality(nodes) = 1

\* C20 as stated: every poll of the open results of its node returns an open
\* TaskResult, whatever core operations were served in between
OpenAlwaysDelivered ==
    \A t \in taskresults : t.finished_at = None => Delivered(t, t.node_id)

----------------------------------------------------------------------------
\* C23: a node keeps its id and its organization_id for as long as it is stored: no
\* step changes either field of a row (a row being followed by its id or by its
\* api_key), and in particular an admin of another organization who updates the node
\* changes the collaboration only.
IdentityFixedAtCreation ==
    [][\A n \in nodes : \A m \in nodes' :
          (m.id = n.id \/ m.api_key = n.api_key)
              => /\ m.id = n.id
                 /\ m.api_key = n.api_key
                 /\ m.organization_id = n.organization_id]_vars

\* an admin of organization 2 has reassigned the node of organization 1, which is
\* still a node of organization 1 under its first id
ForeignAdminUpdateWitness ==
    /\ last.op = "Node.put"
    /\ last.status = 200
    /\ IsAdmin(LastUser)
    /\ Exists(last.uid)
    /\ last.uid = FirstNode.id
    /\ TheNode(last.uid).organization_id # LastUser.organization_id
    /\ TheNode(last.uid).organization_id = FirstNode.organization_id
    /\ TheNode(last.uid).collaboration_id # FirstNode.collaboration_id

\* C24: after a successful PUT on a node of the store, the same request once more
\* (same caller, same uid, the collaboration_id the node now carries) succeeds and
\* leaves the store as it is: the same rows with the same fields, the same next id.
PutTwiceIsPutOnce ==
    (last.op = "Node.put" /\ last.status = 200 /\ Exists(last.uid))
        => \A raw \in RawBodies :
              (WellFormed(raw) /\ raw.val = TheNode(last.uid).collaboration_id)
                  => \A r \in {Node_put(LastUser, last.uid, raw)} :
                        /\ r.status = 200
                        /\ r.state = State
                        /\ r.body = NodeBody(TheNode(last.uid))

\* the member of organization 1 has moved the first node to another collaboration,
\* and the store holds that one node
PutTwiceWitness ==
    /\ last.op = "Node.put"
    /\ last.status = 200
    /\ last.user = 1
    /\ last.uid = FirstNode.id
    /\ nodes = {[FirstNode EXCEPT !.collaboration_id = 2]}
    /\ \E raw \in RawBodies : WellFormed(raw) /\ raw.val = 2

----------------------------------------------------------------------------
(* Vocabulary of the claims about two clients at once.                      *)

\* client c has its answer
Answered(c) == inflight[c].pc = "done"

\* client c's request was a creation, and is answered
Created(c) == Answered(c) /\ inflight[c].kind = "create"

\* the timestamp of an api_key
KeyTime(api_key) == api_key[2]

\* the row of the store with the id of node, if any
Stored(node) == {n \in nodes : n.id = node.id}

\* client c's request makes its write step
Writes(c) == inflight[c].pc = "write" /\ inflight'[c].pc = "done"

\* C21: creation is not deduplicated. In every store, reached by requests one after
\* the other or interleaved, a POST /nodes and a PUT on an absent uid for a known
\* collaboration succeed, whether or not a node for that organization and
\* collaboration exists; and when both clients have created a node, both got a
\* success status and their two nodes are in the store with different ids and
\* different api_keys, also when organization and collaboration are the same.
CreationNotDeduplicated ==
    /\ \A user \in Users, raw \in RaceBodies :
          KnownCollaboration(raw)
              => /\ Nodes_post(user, raw).status = 201
                 /\ \A uid \in PathUids :
                       ~Exists(uid) => Node_put(user, uid, raw).status = 200
    /\ \A c \in Clients, d \in Clients :
          (c # d /\ Created(c) /\ Created(d))
              => /\ inflight[c].status \in {200, 201}
                 /\ inflight[c].node \in nodes
                 /\ inflight[d].node \in nodes
                 /\ inflight[c].node.id # inflight[d].node.id
                 /\ inflight[c].node.api_key # inflight[d].node.api_key

\* both clients have created a node for the organization and collaboration of the
\* first node, interleaved: the node saved first got its api_key last
InterleavedCreationWitness ==
    /\ Created("A")
    /\ Created("B")
    /\ FirstNode \in nodes
    /\ \A c \in Clients :
          /\ inflight[c].node \in nodes
          /\ inflight[c].node.organization_id = FirstNode.organization_id
          /\ inflight[c].node.collaboration_id = FirstNode.collaboration_id
    /\ inflight["A"].node.id < inflight["B"].node.id
    /\ KeyTime(inflight["A"].node.api_key) > KeyTime(inflight["B"].node.api_key)
    /\ Cardinality(nodes) = 3

\* C22: nothing stands between a read step and its write step. Every write step
\* reports the success its read step decided and imposes what it holds on the store
\* as it is by then: a new row is added, the row read is stored with its change
\* whatever became of it, the row read is removed if still there. So the last writer
\* wins and an earlier write can be lost.
LastWriterWins ==
    [][\A c \in Clients :
          Writes(c)
              => /\ inflight'[c].status = inflight[c].status
                 /\ inflight[c].status \in {200, 201}
                 /\ inflight[c].kind = "create" => inflight'[c].node \in nodes'
                 /\ inflight[c].kind = "update" => inflight[c].node \in nodes'
                 /\ inflight[c].kind = "delete" =>
                       {n \in nodes' : n.id = inflight[c].node.id} = {}]_vars

\* a PUT and a DELETE on the same node have read the same row and both answered 200;
\* the DELETE removed the row, the PUT wrote it back afterwards: the store holds the
\* node under its old id and api_key, which neither order of the two requests gives
LostUpdateWitness ==
    /\ \E c \in Clients, d \in Clients :
          /\ Answered(c) /\ inflight[c].op = "Node.put" /\ inflight[c].kind = "update"
          /\ Answered(d) /\ inflight[d].op = "Node.delete" /\ inflight[d].kind = "delete"
          /\ inflight[c].uid = inflight[d].uid
          /\ inflight[c].read = FirstNode
          /\ inflight[d].read = FirstNode
          /\ inflight[c].status = 200
          /\ inflight[d].status = 200
          /\ inflight[c].node.collaboration_id # FirstNode.collaboration_id
          /\ nodes = {inflight[c].node}
    /\ last.op = "Node.put"

\* two PUTs on the same node have read the same row and both answered 200; the store
\* holds the collaboration of one of them only
OverwrittenUpdateReached ==
    /\ Answered("A") /\ inflight["A"].kind = "update"
    /\ Answered("B") /\ inflight["B"].kind = "update"
    /\ inflight["A"].read = inflight["B"].read
    /\ inflight["A"].status = 200
    /\ inflight["B"].status = 200
    /\ inflight["A"].node.collaboration_id # inflight["B"].node.collaboration_id
    /\ inflight["A"].node.collaboration_id # inflight["A"].read.collaboration_id
    /\ nodes = {inflight["B"].node}
====
